---------------------------- MODULE Spec2Model ----------------------------
(***************************************************************************)
(* TaxAuthorityClient.submit_invoice (src/tax_integration_app.py): the     *)
(* bounded retry loop that POSTs an invoice to the tax authority, records  *)
(* one entry per attempt and sleeps a jittered exponential backoff between *)
(* attempts.                                                               *)
(*                                                                         *)
(* One client (its configuration is fixed at construction) serves the      *)
(* calls of the set Calls.  A call is at one of these places:              *)
(*   "idle"      submit_invoice has not been invoked yet                   *)
(*   "post"      inside requests.post(...) of the current attempt          *)
(*   "sleep"     inside time.sleep(...) after the current attempt          *)
(*   "returned"  submit_invoice has returned (status[c], attempts_log[c])  *)
(*   "raised"    an exception has left submit_invoice                      *)
(* wire and sleeps are history variables: what requests.post produced for  *)
(* each attempt, and the delay handed to each time.sleep; sent is the      *)
(* history of the arguments of each requests.post call.                    *)
(*                                                                         *)
(* The application (lines 122-148) serves POST /api/v1/invoices/submit with *)
(* an `async def` handler that calls client.submit_invoice directly: the   *)
(* handler never awaits, so from its first line to its last it holds the   *)
(* event loop (loop is the request being handled, 0 when the loop is free).*)
(* http[c] is the exchange of request c; invoices and invoice_responses are*)
(* the rows of the two tables in insertion order; handled is the history of*)
(* the requests whose handler has ended, in order.                         *)
(*                                                                         *)
(* json_error_escapes is the installed requests library's behaviour, which *)
(* the source does not pin: response.json() on text that is not JSON raises*)
(* requests.exceptions.JSONDecodeError, a RequestException that line 109   *)
(* catches (requests 2.27 and later, FALSE), or a plain ValueError that no *)
(* handler of submit_invoice catches (earlier releases, TRUE).             *)
(***************************************************************************)
EXTENDS Integers, Sequences, FiniteSets, TLC

VARIABLES client, json_error_escapes, pc, attempt, attempts_log, status,
          wire, sleeps, invoice, mode, url, sent,
          loop, http, invoices, invoice_responses, handled

vars == <<client, json_error_escapes, pc, attempt, attempts_log, status,
          wire, sleeps, invoice, mode, url, sent,
          loop, http, invoices, invoice_responses, handled>>

\* the application around the client: the event loop, the HTTP exchanges and
\* the two tables
appvars == <<loop, http, invoices, invoice_responses, handled>>

\* the arguments of a call and the url it computes on line 92
callvars == <<invoice, mode, url>>

---------------------------------------------------------------------------
(* Bounds of the model *)

\* largest max_retries a client is constructed with under Spec
MaxRetries == 3

\* number of calls sharing the client under SpecShared
NumCalls == 2

\* largest max_retries a client is constructed with under SpecShared
SharedRetries == 2

Calls == 1 .. NumCalls

---------------------------------------------------------------------------
(* Values *)

\* Python's None in the status_code field (a status code is never negative)
None == -1

\* Python's None in the response field
NoBody == "None"

\* status codes the transport answers with: the success code, another 2xx,
\* both ends of [400,500) and the first code past it
StatusCodes == {200, 201, 400, 499, 500}

\* response.content: empty, a JSON document, text that is not JSON
EmptyContent == ""
JsonContent == "{\"ref\": 1}"
HtmlContent == "<html>"
Contents == {EmptyContent, JsonContent, HtmlContent}

\* exceptions derived from requests.exceptions.RequestException
TransportErrors == {"ConnectionError"}
UrlErrors == {"MissingSchema"}

Response(code, content) ==
    [kind |-> "response", status_code |-> code, content |-> content]

Raised(exc) ==
    [kind |-> "exception", status_code |-> None, content |-> exc]

Responses == {Response(code, content) : code \in StatusCodes, content \in Contents}

\* what one requests.post call can produce when the URL is well formed
Results == Responses \cup {Raised(e) : e \in TransportErrors}

\* the smaller alphabet used when several calls run together
SharedResults ==
    {Response(200, JsonContent), Response(200, HtmlContent),
     Response(400, EmptyContent), Response(500, JsonContent),
     Raised("ConnectionError")}

\* random.uniform(0.5, 1.5) in tenths: both ends of the range.  The upper
\* end is a value the call can return: it computes a + (b - a) * random(), and
\* 0.5 + (1 - 2^-53), for the largest value of random(), rounds to 1.5
Jitters == {5, 15}
SharedJitters == {10}

BaseUrls == {"https://tax.example", "not a url"}

\* the invoice documents and the modes calls are made with
Invoices == {"INV-1", "INV-2"}
Modes == {"success", "transient"}

\* mutant of Url: the mode is left out of the query
UrlWithoutMode(base_url, m) == base_url \o "/tax/submit"

\* line 92: f"{self.base_url}/tax/submit?mode={mode}"
Url(base_url, m) == base_url \o "/tax/submit?mode=" \o m

\* line 97: the arguments of requests.post
Request(u, document, timeout) == [url |-> u, json |-> document, timeout |-> timeout]

\* line 85: the defaults of max_retries, backoff_base and timeout
DefaultMaxRetries == 3
DefaultBackoffBase == 2
DefaultTimeout == 5

\* backoff_base: the default of line 85 and a larger one
BackoffBases == {2, 3}

WellFormed(base_url) == base_url = "https://tax.example"

---------------------------------------------------------------------------
(* Pure helpers of submit_invoice *)

\* response.json(): the parsed document; defined for JSON text only
CanParse(content) == content = JsonContent

Json(content) == "dict(ref=1)"

\* str(e) of a caught exception
Str(exc) == "str(" \o exc \o ")"

\* line 101: response.json() if response.content else None
ResponseField(content) ==
    IF content = EmptyContent THEN NoBody ELSE Json(content)

\* line 101 raises when the content is non-empty and is not JSON
JsonRaises(content) == content # EmptyContent /\ ~CanParse(content)

\* mutant of IsSuccess: every 2xx counts as success
IsSuccessAny2xx(code) == 200 <= code /\ code < 300

\* line 104
IsSuccess(code) == code = 200

\* mutant of IsClientError: the upper end of the range is included
IsClientErrorInclusive(code) == 400 <= code /\ code <= 500

\* line 106
IsClientError(code) == 400 <= code /\ code < 500

\* line 95: range(1, self.max_retries + 1)
AttemptRange(max_retries) == 1 .. max_retries

\* line 116
MoreAttempts(a, max_retries) == a < max_retries

RECURSIVE Pow(_, _)
Pow(b, e) == IF e = 0 THEN 1 ELSE b * Pow(b, e - 1)

\* mutant of SleepTime: the exponent starts at 0
SleepTimeFromZero(backoff_base, a, jitter) == Pow(backoff_base, a - 1) * jitter

\* line 117, in tenths of a second: backoff_base ** attempt * jitter
SleepTime(backoff_base, a, jitter) == Pow(backoff_base, a) * jitter

\* mutant of Record: attempts are numbered from 0
RecordZeroBased(a, code, response) ==
    [attempt |-> a - 1, status_code |-> code, response |-> response]

\* lines 98-102 and 110-114: one entry of attempts_log
Record(a, code, response) ==
    [attempt |-> a, status_code |-> code, response |-> response]

---------------------------------------------------------------------------
(* Construction *)

\* TaxAuthorityClient.__init__: the arguments are stored as given
NewClient(base_url, max_retries, backoff_base, timeout) ==
    [base_url |-> base_url, max_retries |-> max_retries,
     backoff_base |-> backoff_base, timeout |-> timeout]

InitApplication ==
    /\ loop = 0
    /\ http = [c \in Calls |-> "none"]
    /\ invoices = <<>>
    /\ invoice_responses = <<>>
    /\ handled = <<>>

InitCalls ==
    /\ InitApplication
    /\ json_error_escapes \in BOOLEAN
    /\ pc = [c \in Calls |-> "idle"]
    /\ attempt = [c \in Calls |-> 0]
    /\ attempts_log = [c \in Calls |-> <<>>]
    /\ status = [c \in Calls |-> "NONE"]
    /\ wire = [c \in Calls |-> <<>>]
    /\ sleeps = [c \in Calls |-> <<>>]
    /\ invoice = [c \in Calls |-> "NONE"]
    /\ mode = [c \in Calls |-> "NONE"]
    /\ url = [c \in Calls |-> "NONE"]
    /\ sent = [c \in Calls |-> <<>>]

Init ==
    /\ client \in {NewClient(u, m, b, 5) :
                       u \in BaseUrls, m \in 0 .. MaxRetries, b \in BackoffBases}
    /\ InitCalls

\* lines 122-123: the application's client takes the defaults of line 85
InitApp ==
    /\ client \in {NewClient(u, DefaultMaxRetries, DefaultBackoffBase, DefaultTimeout) :
                       u \in BaseUrls}
    /\ InitCalls

InitShared ==
    /\ client \in {NewClient(u, m, 2, 5) : u \in BaseUrls, m \in 0 .. SharedRetries}
    /\ InitCalls

---------------------------------------------------------------------------
(* submit_invoice *)

\* a return statement inside the loop (lines 105, 107)
Return(c, log, st) ==
    /\ attempts_log' = [attempts_log EXCEPT ![c] = log]
    /\ pc' = [pc EXCEPT ![c] = "returned"]
    /\ status' = [status EXCEPT ![c] = st]

\* mutant of FallThrough: a failed attempt ends the call at once
FallThroughStops(c, log) == Return(c, log, "FAILED")

\* lines 116-120 after attempt a was recorded: sleep, or leave the loop
FallThrough(c, log) ==
    /\ attempts_log' = [attempts_log EXCEPT ![c] = log]
    /\ IF MoreAttempts(attempt[c], client.max_retries)
       THEN /\ pc' = [pc EXCEPT ![c] = "sleep"]
            /\ status' = status
       ELSE /\ pc' = [pc EXCEPT ![c] = "returned"]
            /\ status' = [status EXCEPT ![c] = "FAILED"]

\* lines 92-95: the call starts; an empty range skips the loop to line 120
Invoke(c, document, m) ==
    /\ pc[c] = "idle"
    /\ invoice' = [invoice EXCEPT ![c] = document]
    /\ mode' = [mode EXCEPT ![c] = m]
    /\ url' = [url EXCEPT ![c] = Url(client.base_url, m)]
    /\ attempts_log' = [attempts_log EXCEPT ![c] = <<>>]
    /\ IF 1 \in AttemptRange(client.max_retries)
       THEN /\ attempt' = [attempt EXCEPT ![c] = 1]
            /\ pc' = [pc EXCEPT ![c] = "post"]
            /\ status' = status
       ELSE /\ attempt' = attempt
            /\ pc' = [pc EXCEPT ![c] = "returned"]
            /\ status' = [status EXCEPT ![c] = "FAILED"]
    /\ UNCHANGED <<client, json_error_escapes, wire, sleeps, sent>>

\* lines 97-116: requests.post produces r; the attempt is recorded and classified
Post(c, r) ==
    /\ pc[c] = "post"
    /\ sent' = [sent EXCEPT ![c] =
                   Append(@, Request(url[c], invoice[c], client.timeout))]
    /\ wire' = [wire EXCEPT ![c] = Append(@, r)]
    /\ LET a == attempt[c]
           log == attempts_log[c]
       IN  CASE r.kind = "exception" ->
                    \* lines 109-114
                    FallThrough(c, Append(log, Record(a, None, Str(r.content))))
             [] r.kind = "response" /\ JsonRaises(r.content) /\ ~json_error_escapes ->
                    \* line 101 raises a RequestException: lines 109-114
                    FallThrough(c, Append(log, Record(a, None, Str("JSONDecodeError"))))
             [] r.kind = "response" /\ JsonRaises(r.content) /\ json_error_escapes ->
                    \* line 101 raises a ValueError that line 109 does not catch
                    /\ pc' = [pc EXCEPT ![c] = "raised"]
                    /\ UNCHANGED <<attempts_log, status>>
             [] OTHER ->
                    LET log2 == Append(log, Record(a, r.status_code,
                                                   ResponseField(r.content)))
                    IN  IF IsSuccess(r.status_code)
                        THEN Return(c, log2, "SUBMITTED")
                        ELSE IF IsClientError(r.status_code)
                        THEN Return(c, log2, "FAILED")
                        ELSE FallThrough(c, log2)
    /\ UNCHANGED <<client, json_error_escapes, attempt, sleeps, callvars>>

\* lines 117-118 and the next iteration of line 95
Sleep(c, jitter) ==
    /\ pc[c] = "sleep"
    /\ sleeps' = [sleeps EXCEPT ![c] =
                     Append(@, SleepTime(client.backoff_base, attempt[c], jitter))]
    /\ attempt' = [attempt EXCEPT ![c] = @ + 1]
    /\ pc' = [pc EXCEPT ![c] = "post"]
    /\ UNCHANGED <<client, json_error_escapes, attempts_log, status, wire,
                   callvars, sent>>

\* what requests.post can produce for this client: a malformed URL is refused
\* with a RequestException before anything is sent
PostResults(results) ==
    IF WellFormed(client.base_url) THEN results
    ELSE {Raised(e) : e \in UrlErrors}

\* one call on the client
Next ==
    \/ \E m \in Modes : Invoke(1, "INV-1", m) /\ UNCHANGED appvars
    \/ \E r \in PostResults(Results) : Post(1, r) /\ UNCHANGED appvars
    \/ \E j \in Jitters : Sleep(1, j) /\ UNCHANGED appvars

Spec == Init /\ [][Next]_vars

\* several calls on the same client, interleaved step by step
NextShared ==
    \/ \E c \in Calls : \E d \in Invoices :
           Invoke(c, d, "success") /\ UNCHANGED appvars
    \/ \E c \in Calls : \E r \in PostResults(SharedResults) :
           Post(c, r) /\ UNCHANGED appvars
    \/ \E c \in Calls : \E j \in SharedJitters :
           Sleep(c, j) /\ UNCHANGED appvars

SpecShared == InitShared /\ [][NextShared]_vars

---------------------------------------------------------------------------
(* The route POST /api/v1/invoices/submit (lines 129-148) *)

\* lines 134, 140: str(invoice.invoiceId)
InvoiceId(document) == "id:" \o document

\* line 134: InvoiceDB(invoice_id=..., status=status)
InvoiceRow(document, st) == [invoice_id |-> InvoiceId(document), status |-> st]

\* lines 139-144: InvoiceResponseDB(...) of one attempt
ResponseRow(document, att) ==
    [invoice_id |-> InvoiceId(document), attempt |-> att.attempt,
     status_code |-> att.status_code, response |-> att.response]

\* lines 138-145: one row per attempt, in the order of the log
ResponseRows(document, log) == [i \in 1 .. Len(log) |-> ResponseRow(document, log[i])]

\* line 18: invoice_id is unique, and the object merged on line 135 has no
\* primary key, so the merge is an INSERT: it fails when the id is stored
UniqueViolation(document) ==
    \E i \in 1 .. Len(invoices) : invoices[i].invoice_id = InvoiceId(document)

\* the request reaches the handler: it takes the event loop and calls
\* client.submit_invoice (line 131)
Receive(c, document, m) ==
    /\ loop = 0
    /\ http[c] = "none"
    /\ Invoke(c, document, m)
    /\ loop' = c
    /\ http' = [http EXCEPT ![c] = "handling"]
    /\ UNCHANGED <<invoices, invoice_responses, handled>>

\* inside line 131: the handler is in requests.post
HandlerPost(c, r) ==
    /\ loop = c
    /\ Post(c, r)
    /\ UNCHANGED appvars

\* inside line 131: the handler is in time.sleep, which does not yield
HandlerSleep(c, jitter) ==
    /\ loop = c
    /\ Sleep(c, jitter)
    /\ UNCHANGED appvars

\* lines 134-148: the outcome and the attempts are stored and the response is
\* sent; the commit of line 136 raises IntegrityError for a stored invoice_id
Persist(c) ==
    /\ loop = c
    /\ pc[c] = "returned"
    /\ http[c] = "handling"
    /\ IF UniqueViolation(invoice[c])
       THEN /\ http' = [http EXCEPT ![c] = "500"]
            /\ UNCHANGED <<invoices, invoice_responses>>
       ELSE /\ invoices' = Append(invoices, InvoiceRow(invoice[c], status[c]))
            /\ invoice_responses' =
                   invoice_responses \o ResponseRows(invoice[c], attempts_log[c])
            /\ http' = [http EXCEPT ![c] = "200"]
    /\ loop' = 0
    /\ handled' = Append(handled, c)
    /\ UNCHANGED <<client, json_error_escapes, pc, attempt, attempts_log, status,
                   wire, sleeps, callvars, sent>>

\* line 131 raised: the handler ends with an error response, nothing is stored
Fail(c) ==
    /\ loop = c
    /\ pc[c] = "raised"
    /\ http[c] = "handling"
    /\ http' = [http EXCEPT ![c] = "500"]
    /\ loop' = 0
    /\ handled' = Append(handled, c)
    /\ UNCHANGED <<client, json_error_escapes, pc, attempt, attempts_log, status,
                   wire, sleeps, callvars, sent, invoices, invoice_responses>>

NextApp ==
    \/ \E c \in Calls : \E d \in Invoices : Receive(c, d, "success")
    \/ \E c \in Calls : \E r \in PostResults(SharedResults) : HandlerPost(c, r)
    \/ \E c \in Calls : \E j \in SharedJitters : HandlerSleep(c, j)
    \/ \E c \in Calls : Persist(c)
    \/ \E c \in Calls : Fail(c)

SpecApp == InitApp /\ [][NextApp]_vars

---------------------------------------------------------------------------
(* Vocabulary of the claims, stated on what the transport produced (wire)  *)
(* and on what the call did with it.                                       *)

Returned(c) == pc[c] = "returned"

IsResponse(r) == r.kind = "response"

Is200(r) == IsResponse(r) /\ r.status_code = 200

Is4xx(r) == IsResponse(r) /\ r.status_code \in 400 .. 499

\* a transport error, or a status that is neither 200 nor 4xx
NonTerminal(r) == ~Is200(r) /\ ~Is4xx(r)

IsTransportFailure(r) == r.kind = "exception" /\ r.content \in TransportErrors

ConfigError == ~WellFormed(client.base_url) \/ client.max_retries <= 0

\* call c's requests.post has just produced a result in this step
Posted(c) == pc[c] = "post" /\ Len(wire'[c]) = Len(wire[c]) + 1

Last(s) == s[Len(s)]

---------------------------------------------------------------------------
\* C1: the attempt log a call returns has at least 1 and at most max_retries
\* records, for every configuration.  Stated as claimed; a client built with
\* max_retries = 0 returns ("FAILED", []).
C1_LogLengthInRange ==
    \A c \in Calls :
        Returned(c) =>
            /\ Len(attempts_log[c]) >= 1
            /\ Len(attempts_log[c]) <= client.max_retries

\* C2: an attempt that returns a status in [400,500) ends the call at that
\* attempt: it is the last POST, no sleep follows it, its record is the last
\* one and the outcome is FAILED.  Stated as claimed, of the calls that no
\* exception has left.
C2_ClientErrorTerminates ==
    \A c \in Calls :
        \A i \in 1 .. Len(wire[c]) :
            (Is4xx(wire[c][i]) /\ pc[c] # "raised") =>
                /\ i = Len(wire[c])
                /\ Returned(c)
                /\ status[c] = "FAILED"
                /\ Len(attempts_log[c]) = i
                /\ Len(sleeps[c]) = i - 1

\* C3: an attempt that returns status 200 ends the call at that attempt with
\* outcome SUBMITTED, with no sleep and no further attempt; a 200 on the first
\* attempt gives a log of length 1.  Stated as claimed, of the calls that no
\* exception has left.
C3_SuccessTerminates ==
    \A c \in Calls :
        \A i \in 1 .. Len(wire[c]) :
            (Is200(wire[c][i]) /\ pc[c] # "raised") =>
                /\ i = Len(wire[c])
                /\ Returned(c)
                /\ status[c] = "SUBMITTED"
                /\ Len(attempts_log[c]) = i
                /\ Len(sleeps[c]) = i - 1

C5_TransportFailureStep(c) ==
    (Posted(c) /\ IsTransportFailure(Last(wire'[c]))) =>
        /\ pc'[c] # "raised"
        /\ attempts_log'[c] =
               Append(attempts_log[c],
                      [attempt |-> attempt[c], status_code |-> None,
                       response |-> Str(Last(wire'[c]).content)])
        /\ attempt[c] < client.max_retries => pc'[c] = "sleep"
        /\ attempt[c] >= client.max_retries =>
               /\ pc'[c] = "returned"
               /\ status'[c] = "FAILED"
               /\ Len(attempts_log'[c]) = Len(wire'[c])

\* C5: every step of every call treats a transport failure this way
C5_TransportFailureRecorded == [][\A c \in Calls : C5_TransportFailureStep(c)]_vars

\* C5 witness: max_retries = 2, both attempts met a connection error, and the
\* call returned FAILED with two records that carry no status code
C5_Witness ==
    /\ client.max_retries = 2
    /\ Returned(1)
    /\ status[1] = "FAILED"
    /\ wire[1] = <<Raised("ConnectionError"), Raised("ConnectionError")>>
    /\ Len(attempts_log[1]) = 2
    /\ \A i \in 1 .. 2 :
           /\ attempts_log[1][i].status_code = None
           /\ attempts_log[1][i].response = "str(ConnectionError)"
    /\ Len(sleeps[1]) = 1

\* C6: with a configuration error (malformed base address, non-positive
\* max_retries) no call makes an attempt, creates a record, sleeps or returns
\* an outcome.  Stated as claimed.
C6_ConfigErrorFaults ==
    ConfigError =>
        \A c \in Calls :
            /\ attempts_log[c] = <<>>
            /\ sleeps[c] = <<>>
            /\ ~Returned(c)
            /\ status[c] = "NONE"

\* C7: for every response received, the record of that attempt carries the
\* response's status code, and the parsed body, or no body when the response
\* is empty.  Stated as claimed, of the calls that no exception has left.
C7_ResponseRecorded ==
    \A c \in Calls :
        \A i \in 1 .. Len(wire[c]) :
            (IsResponse(wire[c][i]) /\ pc[c] # "raised") =>
                /\ i <= Len(attempts_log[c])
                /\ attempts_log[c][i].attempt = i
                /\ attempts_log[c][i].status_code = wire[c][i].status_code
                /\ wire[c][i].content = EmptyContent =>
                       attempts_log[c][i].response = NoBody
                /\ wire[c][i].content = JsonContent =>
                       attempts_log[c][i].response = "dict(ref=1)"

\* the status codes (None for an error) the transport produced, in order
Codes(w) == [i \in 1 .. Len(w) |-> w[i].status_code]

IsPrefix(s, t) == Len(s) <= Len(t) /\ \A i \in 1 .. Len(s) : s[i] = t[i]

\* C8: two calls that have returned and whose attempts received the same
\* status codes (one sequence of codes continuing the other, the bodies free)
\* have the same outcome status and the same number of attempts.  Stated as
\* claimed.
C8_DecisionOnStatusOnly ==
    \A c1, c2 \in Calls :
        ( /\ Returned(c1)
          /\ Returned(c2)
          /\ IsPrefix(Codes(wire[c1]), Codes(wire[c2])) )
        => /\ status[c1] = status[c2]
           /\ Len(attempts_log[c1]) = Len(attempts_log[c2])

\* the state of the claimed machine a call is in
State(p, st) ==
    CASE p = "post" -> "ATTEMPTING"
      [] p = "sleep" -> "BACKOFF"
      [] p = "returned" -> st
      [] OTHER -> p

C9_Step(c) ==
    LET before == State(pc[c], status[c])
        after == State(pc'[c], status'[c])
        remain == attempt[c] < client.max_retries
        r == Last(wire'[c])
    IN  /\ pc[c] = "idle" /\ pc'[c] # "idle" =>
               /\ after = "ATTEMPTING"
               /\ attempt'[c] = 1
               /\ attempts_log'[c] = <<>>
        /\ Posted(c) =>
               /\ Is200(r) => after = "SUBMITTED"
               /\ Is4xx(r) => after = "FAILED"
               /\ NonTerminal(r) /\ remain => after = "BACKOFF"
               /\ NonTerminal(r) /\ ~remain => after = "FAILED"
        /\ before = "ATTEMPTING" =>
               after \in {"ATTEMPTING", "BACKOFF", "SUBMITTED", "FAILED"}
        /\ before = "ATTEMPTING" /\ after # "ATTEMPTING" => Posted(c)
        /\ before = "BACKOFF" => after \in {"BACKOFF", "ATTEMPTING"}
        /\ before \in {"SUBMITTED", "FAILED"} =>
               /\ after = before
               /\ wire'[c] = wire[c]
               /\ sleeps'[c] = sleeps[c]
               /\ attempts_log'[c] = attempts_log[c]

\* C9: a call starts in ATTEMPTING and takes only the transitions
\* ATTEMPTING -200-> SUBMITTED, ATTEMPTING -4xx-> FAILED, ATTEMPTING -(other
\* status or transport error, attempts remain)-> BACKOFF, BACKOFF -> ATTEMPTING,
\* ATTEMPTING -(other or transport error, none remain)-> FAILED; SUBMITTED and
\* FAILED are terminal.  Stated as claimed, of the clients whose
\* configuration is valid.
C9_StateMachine == [][~ConfigError => \A c \in Calls : C9_Step(c)]_vars

\* C10: attempts are sequential and separated by exactly one sleep: attempt
\* k+1 is posted after k records and k sleeps, no sleep precedes attempt 1, no
\* sleep follows attempt max_retries or an attempt that returned 200 or 4xx,
\* and a returned call slept one time less than it has records.  Stated as
\* claimed, of the clients whose configuration is valid.
C10_OneSleepBetweenAttempts ==
    ~ConfigError => \A c \in Calls :
        /\ pc[c] = "post" =>
               /\ Len(wire[c]) = attempt[c] - 1
               /\ Len(attempts_log[c]) = attempt[c] - 1
               /\ Len(sleeps[c]) = attempt[c] - 1
        /\ Len(sleeps[c]) <= Len(wire[c])
        /\ Len(sleeps[c]) < client.max_retries \/ sleeps[c] = <<>>
        /\ \A i \in 1 .. Len(wire[c]) :
               (Is200(wire[c][i]) \/ Is4xx(wire[c][i])) =>
                   /\ Len(sleeps[c]) < i
                   /\ pc[c] # "sleep"
        /\ Returned(c) => Len(sleeps[c]) = Len(attempts_log[c]) - 1

---------------------------------------------------------------------------
\* C11: in every log the i-th record has attempt number i, and a step either
\* leaves a call's log alone or appends one record at its end: no record is
\* changed, removed or reordered.
C11_Numbered ==
    \A c \in Calls :
        \A i \in 1 .. Len(attempts_log[c]) : attempts_log[c][i].attempt = i

C11_AppendOnly(c) ==
    \/ attempts_log'[c] = attempts_log[c]
    \/ /\ Len(attempts_log'[c]) = Len(attempts_log[c]) + 1
       /\ SubSeq(attempts_log'[c], 1, Len(attempts_log[c])) = attempts_log[c]
       /\ Posted(c)

\* C11: every log is numbered 1, 2, ... in order, always, and grows only by
\* appending the record of a POST
C11_LogInAttemptOrder ==
    /\ []C11_Numbered
    /\ [][\A c \in Calls : C11_AppendOnly(c)]_vars

\* C11 witness: a returned log of three records numbered 1, 2, 3
C11_Witness ==
    /\ Returned(1)
    /\ Len(attempts_log[1]) = 3
    /\ \A i \in 1 .. 3 : attempts_log[1][i].attempt = i
    /\ attempts_log[1][1].status_code = 500
    /\ attempts_log[1][2].status_code = None
    /\ attempts_log[1][3].status_code = 200

---------------------------------------------------------------------------
\* the records of call c are those of its own attempts, one per result its own
\* POSTs produced
OwnRecords(c) ==
    /\ Len(attempts_log[c]) <= Len(wire[c])
    /\ \A i \in 1 .. Len(attempts_log[c]) :
           /\ attempts_log[c][i].attempt = i
           /\ attempts_log[c][i].status_code \in {wire[c][i].status_code, None}

\* two calls that met the same transport results are at the same place with
\* the same log and the same outcome
SameResultsSameOutcome(c1, c2) ==
    wire[c1] = wire[c2] /\ pc[c1] = pc[c2] /\ pc[c1] # "idle" =>
        /\ attempts_log[c1] = attempts_log[c2]
        /\ status[c1] = status[c2]
        /\ attempt[c1] = attempt[c2]

\* every result call c has met is a 200 response
AlwaysOk(c) ==
    wire[c] # <<>> /\ \A i \in 1 .. Len(wire[c]) : Is200(wire[c][i])

\* C12: calls on one shared client, interleaved in any order, are independent:
\* each log holds only the records of the call's own attempts, calls that met
\* the same transport results have the same log and outcome, and every call
\* whose transport always answers 200 returns SUBMITTED with a log of length 1.
\* Stated as claimed.
C12_CallsIndependent ==
    \A c1 \in Calls :
        /\ OwnRecords(c1)
        /\ \A c2 \in Calls : SameResultsSameOutcome(c1, c2)
        /\ AlwaysOk(c1) /\ pc[c1] \in {"returned", "sleep"} =>
               /\ Returned(c1)
               /\ status[c1] = "SUBMITTED"
               /\ Len(attempts_log[c1]) = 1

---------------------------------------------------------------------------
Ended(c) == pc[c] \in {"returned", "raised"}

\* C14: a call makes at most max_retries attempts and ends by returning an
\* outcome that is SUBMITTED or FAILED, never by an exception; until then its
\* next step (the POST completing, the sleep elapsing) is possible.  Stated as
\* claimed, in the form a finite run refutes.
C14_EndsWithOutcome ==
    \A c \in Calls :
        /\ pc[c] # "raised"
        /\ Len(wire[c]) <= client.max_retries \/ wire[c] = <<>>
        /\ Returned(c) => status[c] \in {"SUBMITTED", "FAILED"}
        /\ ~Returned(c) => status[c] = "NONE"

\* every result before the last is a transport failure or a status that is
\* neither 200 nor 4xx, and the last one is a 200 response
SucceedsAtLast(w) ==
    /\ w # <<>>
    /\ Is200(Last(w))
    /\ \A i \in 1 .. Len(w) - 1 : NonTerminal(w[i])

\* C15: when attempts 1..k-1 end in a transport failure or a non-terminal
\* status and attempt k (k <= max_retries) returns 200, the call returns
\* SUBMITTED with exactly k records, the last with status 200.  Stated as
\* claimed, of the calls that no exception has left.
C15_SuccessAfterRetries ==
    \A c \in Calls :
        (SucceedsAtLast(wire[c]) /\ pc[c] # "raised") =>
            /\ Returned(c)
            /\ status[c] = "SUBMITTED"
            /\ Len(attempts_log[c]) = Len(wire[c])
            /\ Last(attempts_log[c]).status_code = 200

TerminalCode(code) == code = 200 \/ code \in 400 .. 499

\* C19: in a returned log only the last record carries status 200 or a status
\* in [400,500); the outcome is SUBMITTED exactly when the log's last record
\* has status 200, and FAILED otherwise.
C19_TerminalRecordIsLast ==
    \A c \in Calls :
        Returned(c) =>
            LET log == attempts_log[c]
            IN  /\ \A i \in 1 .. Len(log) - 1 : ~TerminalCode(log[i].status_code)
                /\ status[c] = "SUBMITTED" <=>
                       (log # <<>> /\ Last(log).status_code = 200)
                /\ status[c] \in {"SUBMITTED", "FAILED"}

\* C19 witness: a 500, then a 200 whose body is not JSON (recorded without a
\* status), then a 200 that ends the call with SUBMITTED
C19_Witness ==
    /\ Returned(1)
    /\ status[1] = "SUBMITTED"
    /\ Len(attempts_log[1]) = 3
    /\ wire[1][2] = Response(200, HtmlContent)
    /\ attempts_log[1][1].status_code = 500
    /\ attempts_log[1][2].status_code = None
    /\ attempts_log[1][3].status_code = 200

---------------------------------------------------------------------------
\* the bounds of the delay after attempt k, in tenths of a second
DelayLow(k) == Pow(client.backoff_base, k) * 5
DelayHigh(k) == Pow(client.backoff_base, k) * 15

\* with backoff_base > 1 both bounds grow strictly with the attempt number
BoundsIncrease(c) ==
    client.backoff_base > 1 =>
        \A k \in 1 .. Len(sleeps[c]) - 1 :
            DelayLow(k) < DelayLow(k + 1) /\ DelayHigh(k) < DelayHigh(k + 1)

\* C16 as claimed: the delay slept after attempt k lies in
\* [backoff_base^k * 0.5, backoff_base^k * 1.5), the upper end excluded.
C16_DelayInHalfOpenRange ==
    \A c \in Calls :
        /\ \A k \in 1 .. Len(sleeps[c]) :
               DelayLow(k) <= sleeps[c][k] /\ sleeps[c][k] < DelayHigh(k)
        /\ BoundsIncrease(c)

\* C16 as amended: the delay slept after attempt k lies in
\* [backoff_base^k * 0.5, backoff_base^k * 1.5], both ends included, with the
\* exponent k the number of the attempt just completed; with backoff_base > 1
\* both bounds grow strictly with k.
C16_DelayInClosedRange ==
    \A c \in Calls :
        /\ \A k \in 1 .. Len(sleeps[c]) :
               DelayLow(k) <= sleeps[c][k] /\ sleeps[c][k] <= DelayHigh(k)
        /\ BoundsIncrease(c)

\* C16 witness: backoff_base = 2, the sleep after attempt 1 took the largest
\* jitter (3.0 s) and the sleep after attempt 2 the smallest (2.0 s)
C16_Witness ==
    /\ client.backoff_base = 2
    /\ sleeps[1] = <<30, 20>>
    /\ Len(attempts_log[1]) = 3

---------------------------------------------------------------------------
\* C17: no step changes the client's configuration, and every POST of a call
\* sends the document the call was given to <base>/tax/submit?mode=<mode>,
\* with the configured timeout: the same document and URL at every attempt.
C17_Requests ==
    \A c \in Calls :
        \A i \in 1 .. Len(sent[c]) :
            /\ sent[c][i].url = client.base_url \o "/tax/submit?mode=" \o mode[c]
            /\ sent[c][i].json = invoice[c]
            /\ sent[c][i].timeout = client.timeout
            /\ sent[c][i] = sent[c][1]

C17_Frame ==
    /\ client' = client
    /\ \A c \in Calls :
           pc[c] # "idle" =>
               /\ invoice'[c] = invoice[c]
               /\ mode'[c] = mode[c]
               /\ url'[c] = url[c]
               /\ SubSeq(sent'[c], 1, Len(sent[c])) = sent[c]

\* C17: every request of a call is the same, always, and no step changes the
\* configuration or a call's document, mode or url
C17_ConfigAndRequestUnchanged == []C17_Requests /\ [][C17_Frame]_vars

\* C17 witness: three attempts of one call in mode "transient", all sent to
\* the same URL with the same document
C17_Witness ==
    /\ Len(sent[1]) = 3
    /\ mode[1] = "transient"
    /\ \A i \in 1 .. 3 :
           sent[1][i] = [url |-> "https://tax.example/tax/submit?mode=transient",
                         json |-> "INV-1", timeout |-> 5]
    /\ client.max_retries = 3

---------------------------------------------------------------------------
\* the handler of request d can start
CanStart(d) == ENABLED (\E doc \in Invoices : Receive(d, doc, "success"))

\* C13: while one submission is in its backoff sleep, another submission the
\* application has not yet served can make progress: its handler can start.
\* Stated as claimed.
C13_SleepDoesNotBlock ==
    \A c, d \in Calls :
        (pc[c] = "sleep" /\ d # c /\ http[d] = "none") => CanStart(d)

\* the requests whose handler has ended and whose call returned, for document doc
Served(doc) ==
    {i \in 1 .. Len(handled) : invoice[handled[i]] = doc /\ Returned(handled[i])}

\* the last of them
Latest(doc) == handled[CHOOSE i \in Served(doc) : \A k \in Served(doc) : k <= i]

RowsOf(doc, att) ==
    {i \in 1 .. Len(invoice_responses) :
        /\ invoice_responses[i].invoice_id = InvoiceId(doc)
        /\ invoice_responses[i].attempt = att}

InvoiceRowsOf(doc) ==
    {i \in 1 .. Len(invoices) : invoices[i].invoice_id = InvoiceId(doc)}

\* C18: once the handlers of the requests received have ended, every attempt
\* of every submission whose call returned has a stored audit row with its
\* invoice id, attempt number and status code, the stored status of an invoice
\* is the outcome of its latest submission, and the audit rows with one
\* (invoice id, attempt number) are as many as the submissions that made that
\* attempt.  Stated as claimed.
C18_AuditTrailStored ==
    loop = 0 =>
        \A doc \in Invoices :
            /\ \A i \in Served(doc) :
                   LET log == attempts_log[handled[i]]
                   IN  \A k \in 1 .. Len(log) :
                           \E row \in RowsOf(doc, k) :
                               invoice_responses[row].status_code = log[k].status_code
            /\ \A k \in 1 .. client.max_retries :
                   Cardinality(RowsOf(doc, k)) =
                       Cardinality({i \in Served(doc) :
                                       Len(attempts_log[handled[i]]) >= k})
            /\ Served(doc) # {} =>
                   /\ Cardinality(InvoiceRowsOf(doc)) = 1
                   /\ \A row \in InvoiceRowsOf(doc) :
                          invoices[row].status = status[Latest(doc)]

=============================================================================
